---- MODULE Spec2Model ----
(***************************************************************************)
(* Angle-based outlier detector (pyod/models/abod.py): the weighted-cosine *)
(* primitive, the angle-variance scorer, the two neighbor strategies and   *)
(* the fit / decision_function state machine of class ABOD.                *)
(*                                                                         *)
(* Conventions of the model:                                               *)
(*  - a point is a tuple of integer coordinates; a data set is a sequence  *)
(*    of points.  Rows are numbered 1..n here and 0..n-1 in the code.      *)
(*  - a float is an exact rational <<num, den>> in lowest terms, den > 0;  *)
(*    NaN is the pair <<0, 0>>.  Floating-point rounding is not modelled.  *)
(*    Two NaN scores count as the same score.                              *)
(*  - an attribute of the detector exists iff its name is in attrs         *)
(*    (hasattr); the variable of an absent attribute holds a placeholder.  *)
(*  - the arrays given to fit and decision_function pass check_array: one  *)
(*    row or more, two features; y is None.                                *)
(***************************************************************************)
EXTENDS Integers, Sequences, FiniteSets, TLC

\* The first coordinate of a point ranges over 0..MaxCoord, the second
\* over 0..1.
MaxCoord == 1
\* Largest number of rows of a training set fitted once and scored.
MaxN == 4
\* Largest number of rows of a training set of the re-fitted detector.
MaxRing == 3

VARIABLES
    method,            \* self.method
    n_neighbors,       \* self.n_neighbors
    attrs,             \* names of the fitted attributes that exist on self
    X_train_,          \* self.X_train_
    n_train_,          \* self.n_train_
    decision_scores_,  \* self.decision_scores_: [shape, data]
    tree_,             \* self.tree_: [data]
    threshold_,        \* self.threshold_
    labels_,           \* self.labels_
    fitted_with,       \* history: method, k, index and neighbor rows of the
                       \* last fit that returned
    ret,               \* outcome of the last call: [op, status, arg, val, ind, calls]
    tie_rule           \* the order the neighbor searches give equidistant rows

vars == <<method, n_neighbors, attrs, X_train_, n_train_, decision_scores_,
          tree_, threshold_, labels_, fitted_with, ret, tie_rule>>

fitted_state == <<attrs, X_train_, n_train_, decision_scores_, tree_,
                  threshold_, labels_>>

-----------------------------------------------------------------------------
(* Exact arithmetic standing for the floats of the code.                   *)

Abs(x) == IF x < 0 THEN -x ELSE x

RECURSIVE GCD(_, _)
GCD(a, b) == IF b = 0 THEN a ELSE GCD(b, a % b)

LCM(a, b) == (a \div GCD(a, b)) * b

NaN == <<0, 0>>

IsNaN(r) == r[2] = 0

Rat(n, d) ==
    IF d = 0 THEN NaN
    ELSE LET g == GCD(Abs(n), Abs(d))
             s == IF d < 0 THEN -1 ELSE 1
         IN  <<s * (n \div g), s * (d \div g)>>

Zero == <<0, 1>>

RatAdd(a, b) ==
    IF IsNaN(a) \/ IsNaN(b) THEN NaN
    ELSE LET l == LCM(a[2], b[2])
         IN  Rat(a[1] * (l \div a[2]) + b[1] * (l \div b[2]), l)

RatNeg(a) == IF IsNaN(a) THEN NaN ELSE <<-a[1], a[2]>>

RatSub(a, b) == RatAdd(a, RatNeg(b))

RatMul(a, b) ==
    IF IsNaN(a) \/ IsNaN(b) THEN NaN
    ELSE LET g1 == GCD(Abs(a[1]), b[2])
             g2 == GCD(Abs(b[1]), a[2])
         IN  Rat((a[1] \div g1) * (b[1] \div g2), (a[2] \div g2) * (b[2] \div g1))

\* a / m for an integer m; numpy's mean of an empty list divides 0.0 by 0
RatDivInt(a, m) ==
    IF IsNaN(a) \/ m = 0 THEN NaN
    ELSE LET g == GCD(Abs(a[1]), m)
         IN  Rat(a[1] \div g, a[2] * (m \div g))

\* a > b as floats compare: FALSE when either is NaN
RatGreater(a, b) ==
    IF IsNaN(a) \/ IsNaN(b) THEN FALSE
    ELSE LET l == LCM(a[2], b[2])
         IN  a[1] * (l \div a[2]) > b[1] * (l \div b[2])

RECURSIVE RatSum(_)
RatSum(s) == IF Len(s) = 0 THEN Zero ELSE RatAdd(Head(s), RatSum(Tail(s)))

-----------------------------------------------------------------------------
(* Vectors.                                                                *)

VecSub(a, b) == [i \in DOMAIN a |-> a[i] - b[i]]

RECURSIVE DotFrom(_, _, _)
DotFrom(u, v, i) ==
    IF i > Len(u) THEN 0 ELSE u[i] * v[i] + DotFrom(u, v, i + 1)

Dot(u, v) == DotFrom(u, v, 1)

\* np.linalg.norm(u, 2) ** 2
Norm2Sq(u) == Dot(u, u)

-----------------------------------------------------------------------------
(* _wcos: dot(a - p, b - p) / |a - p|^2 / |b - p|^2.  With a zero-length   *)
(* displacement the division is by zero; the model then yields NaN.        *)

_wcos(curr_pt, a, b) ==
    LET a_curr == VecSub(a, curr_pt)
        b_curr == VecSub(b, curr_pt)
    IN  Rat(Dot(a_curr, b_curr), Norm2Sq(a_curr) * Norm2Sq(b_curr))

\* mutant of combinations: a position is also paired with itself
RECURSIVE combinations_with_replacement(_)
combinations_with_replacement(X_ind) ==
    IF Len(X_ind) < 1 THEN <<>>
    ELSE [j \in 1..Len(X_ind) |-> <<X_ind[1], X_ind[j]>>]
         \o combinations_with_replacement(Tail(X_ind))

\* itertools.combinations(X_ind, 2): the pairs of positions i < j, in order
RECURSIVE combinations(_)
combinations(X_ind) ==
    IF Len(X_ind) < 2 THEN <<>>
    ELSE [j \in 1..(Len(X_ind) - 1) |-> <<X_ind[1], X_ind[j + 1]>>]
         \o combinations(Tail(X_ind))

\* mutant of KeptPairs: only the first point of a pair is compared
KeptPairs_first_only(curr_pt, X, X_ind) ==
    SelectSeq(combinations(X_ind), LAMBDA p : ~(X[p[1]] = curr_pt))

\* the pairs that pass the "skip if no angle can be formed" test
KeptPairs(curr_pt, X, X_ind) ==
    SelectSeq(combinations(X_ind),
              LAMBDA p : ~(X[p[1]] = curr_pt \/ X[p[2]] = curr_pt))

\* the arguments _wcos is called with while one point is scored
WcosCalls(curr_pt, X, X_ind) ==
    LET kept == KeptPairs(curr_pt, X, X_ind)
    IN  [i \in 1..Len(kept) |-> <<curr_pt, X[kept[i][1]], X[kept[i][2]]>>]

\* np.var: the mean of the squared deviations from the mean; NaN when empty
Var(list) ==
    LET m    == Len(list)
        mean == RatDivInt(RatSum(list), m)
        sq   == [i \in 1..m |-> LET d == RatSub(list[i], mean) IN RatMul(d, d)]
    IN  RatDivInt(RatSum(sq), m)

_calculate_wocs(curr_pt, X, X_ind) ==
    LET calls == WcosCalls(curr_pt, X, X_ind)
        wcos_list == [i \in 1..Len(calls) |->
                         _wcos(calls[i][1], calls[i][2], calls[i][3])]
    IN  Var(wcos_list)

-----------------------------------------------------------------------------
(* The spatial index and the neighbor queries (sklearn.neighbors).  Among  *)
(* equidistant rows the order of the library is fixed but not documented:  *)
(* it is one of the tie rules, the same through a run (tie_rule).          *)

TieRules == {"low", "high"}

SqDist(a, b) == Norm2Sq(VecSub(a, b))

\* row i comes no later than row j in the order of the distances dist
NoLater(dist, tie, i, j) ==
    \/ dist[i] < dist[j]
    \/ /\ dist[i] = dist[j]
       /\ IF tie = "low" THEN i <= j ELSE i >= j

\* the k rows nearest first, given the distance of every row
RECURSIVE NearestFirst(_, _, _, _)
NearestFirst(dist, k, tie, taken) ==
    IF k <= 0 \/ (DOMAIN dist) \ taken = {} THEN <<>>
    ELSE LET cand == (DOMAIN dist) \ taken
             best == CHOOSE i \in cand : \A j \in cand : NoLater(dist, tie, i, j)
         IN  <<best>> \o NearestFirst(dist, k - 1, tie, taken \cup {best})

\* the k rows of data nearest to x, nearest first
KNearest(data, x, k, tie) ==
    NearestFirst([r \in 1..Len(data) |-> SqDist(data[r], x)], k, tie, {})

\* KDTree(self.X_train_)
KDTree(X) == [data |-> X]

NoTree == [data |-> <<>>]

\* mutant of TreeQuery: rows at distance zero are left out
TreeQuery_without_zero(tree, X, k) ==
    [i \in 1..Len(X) |->
        LET dist == [r \in 1..Len(tree.data) |-> SqDist(tree.data[r], X[i])]
        IN  NearestFirst(dist, k, tie_rule, {r \in DOMAIN dist : dist[r] = 0})]

\* self.tree_.query(X, k=self.n_neighbors): one row of indices per row of X
TreeQuery(tree, X, k) ==
    [i \in 1..Len(X) |-> KNearest(tree.data, X[i], k, tie_rule)]

\* mutant of kneighbors: the query row is not dropped
kneighbors_with_self(X, k) ==
    [i \in 1..Len(X) |-> KNearest(X, X[i], k, tie_rule)]

\* NearestNeighbors(n_neighbors=k).fit(X).kneighbors(): the query points are
\* the training rows, k + 1 neighbors are searched and the row itself is
\* dropped (or the first neighbor, when the row is not among them)
kneighbors(X, k) ==
    [i \in 1..Len(X) |->
        LET q == KNearest(X, X[i], k + 1, tie_rule)
        IN  IF \E j \in 1..Len(q) : q[j] = i
            THEN SelectSeq(q, LAMBDA r : r # i)
            ELSE Tail(q)]

-----------------------------------------------------------------------------
(* Collaborators of the detector.                                          *)

\* check_parameter(self.n_neighbors, 1, self.n_train_): TRUE when it passes
check_parameter(param, low, high) == low <= param /\ param < high

\* mutant of check_is_fitted: one named attribute is enough
check_is_fitted_any(names) == names \cap attrs # {}

\* check_is_fitted(self, names): every named attribute exists
check_is_fitted(names) == names \subseteq attrs

FitAttrs == {"X_train_", "n_train_", "decision_scores_", "threshold_", "labels_"}

\* contamination = 0.1
ContamNum == 1
ContamDen == 10

\* _process_decision_scores: the threshold the top contamination * n scores
\* exceed, and the labels (1 when the score exceeds the threshold)
Threshold(scores) ==
    IF \E i \in 1..Len(scores) : IsNaN(scores[i]) THEN NaN
    ELSE LET m == (Len(scores) * ContamNum) \div ContamDen
             t == CHOOSE i \in 1..Len(scores) :
                    /\ Cardinality({r \in 1..Len(scores) :
                           RatGreater(scores[r], scores[i])}) <= m
                    /\ Cardinality({r \in 1..Len(scores) :
                           ~RatGreater(scores[i], scores[r])}) >= m + 1
         IN  scores[t]

Labels(scores, threshold) ==
    [i \in 1..Len(scores) |-> IF RatGreater(scores[i], threshold) THEN 1 ELSE 0]

-----------------------------------------------------------------------------
(* Inputs.                                                                 *)

Methods == {"fast", "default", "other"}

\* every point of the grid, as the rows of one array
Grid == [i \in 1..(2 * (MaxCoord + 1)) |-> <<(i - 1) \div 2, (i - 1) % 2>>]

Points == {Grid[i] : i \in DOMAIN Grid}

\* p comes no later than q in the lexicographic order of the points
PointLeq(p, q) == p[1] < q[1] \/ (p[1] = q[1] /\ p[2] <= q[2])

\* every data set of 1..MaxN rows, duplicate rows included, its rows in
\* lexicographic order (the order of the rows only decides ties, and both
\* tie rules are tried)
Datasets ==
    {X \in UNION {[1..n -> Points] : n \in 1..MaxN} :
        \A i \in 1..Len(X), j \in 1..Len(X) : i <= j => PointLeq(X[i], X[j])}

\* the corners of the square, the first one twice
Ring == <<<<0, 0>>, <<MaxCoord, 0>>, <<0, 1>>, <<MaxCoord, 1>>, <<0, 0>>>>

\* the data sets the re-fitting machine is driven with
RingSets == {SubSeq(Ring, 1, n) : n \in 1..MaxRing}

NoScores == [shape |-> "none", data |-> <<>>]

NoFit == [method |-> "none", k |-> 0, tree |-> NoTree, ind |-> <<>>]

Outcome(op, status, arg, val, ind, calls) ==
    [op |-> op, status |-> status, arg |-> arg, val |-> val, ind |-> ind,
     calls |-> calls]

\* the _wcos calls made while the rows of Q are scored against X
AllCalls(Q, X, ind_arr) ==
    UNION {LET calls == WcosCalls(Q[i], X, ind_arr[i])
           IN  {calls[j] : j \in 1..Len(calls)} : i \in 1..Len(Q)}

-----------------------------------------------------------------------------
(* The detector.                                                           *)

\* ABOD(contamination, n_neighbors, method), n_neighbors among ks
Constructed(ks) ==
    /\ method \in Methods
    /\ n_neighbors \in ks
    /\ attrs = {}
    /\ X_train_ = <<>>
    /\ n_train_ = 0
    /\ decision_scores_ = NoScores
    /\ tree_ = NoTree
    /\ threshold_ = NaN
    /\ labels_ = <<>>
    /\ fitted_with = NoFit
    /\ ret = Outcome("init", "ok", <<>>, <<>>, <<>>, {})
    /\ tie_rule \in TieRules

\* mutant of flip: the sign is kept
flip_missing(scores) == scores

\* self.decision_scores_.ravel() * -1
flip(scores) == [i \in 1..Len(scores) |-> RatNeg(scores[i])]

\* the raw scores of _fit_default: every other row is a neighbor
_fit_default_ind(X) ==
    [i \in 1..Len(X) |->
        SelectSeq([r \in 1..Len(X) |-> r], LAMBDA r : r # i)]

\* the loop of _fit_fast and _fit_default over the training rows
raw_scores(Q, X, ind_arr) ==
    [i \in 1..Len(Q) |-> _calculate_wocs(Q[i], X, ind_arr[i])]

\* fit stops with ValueError after X_train_, n_train_ and the zeroed
\* decision_scores_ were assigned
fit_raises(X) ==
    /\ X_train_' = X
    /\ n_train_' = Len(X)
    /\ decision_scores_' = [shape |-> "n,1", data |-> [i \in 1..Len(X) |-> Zero]]
    /\ attrs' = attrs \cup {"X_train_", "n_train_", "decision_scores_"}
    /\ ret' = Outcome("fit", "ValueError", X, <<>>, <<>>, {})
    /\ UNCHANGED <<method, n_neighbors, tree_, threshold_, labels_, fitted_with,
                   tie_rule>>

\* fit runs to its end with the neighbor rows ind_arr
fit_returns(X, ind_arr) ==
    LET scores == flip(raw_scores(X, X, ind_arr))
    IN  /\ X_train_' = X
        /\ n_train_' = Len(X)
        /\ decision_scores_' = [shape |-> "n", data |-> scores]
        /\ threshold_' = Threshold(scores)
        /\ labels_' = Labels(scores, threshold_')
        /\ fitted_with' = [method |-> method, k |-> n_neighbors, tree |-> tree_',
                           ind |-> ind_arr]
        /\ ret' = Outcome("fit", "ok", X, scores, ind_arr, AllCalls(X, X, ind_arr))
        /\ UNCHANGED <<method, n_neighbors, tie_rule>>

fit(X) ==
    IF method = "fast" /\ check_parameter(n_neighbors, 1, Len(X)) THEN
        /\ tree_' = KDTree(X)
        /\ attrs' = attrs \cup FitAttrs \cup {"tree_"}
        /\ fit_returns(X, kneighbors(X, n_neighbors))
    ELSE IF method = "default" THEN
        /\ tree_' = tree_
        /\ attrs' = attrs \cup FitAttrs
        /\ fit_returns(X, _fit_default_ind(X))
    ELSE fit_raises(X)

\* a call of decision_function that raises
score_raises(Q, error) ==
    /\ ret' = Outcome("score", error, Q, <<>>, <<>>, {})
    /\ UNCHANGED <<method, n_neighbors, fitted_state, fitted_with, tie_rule>>

\* mutant of score_returns: the scores returned are stored as fit does
score_returns_storing(Q, ind_arr) ==
    /\ ret' = Outcome("score", "ok", Q, flip(raw_scores(Q, X_train_, ind_arr)),
                      ind_arr, AllCalls(Q, X_train_, ind_arr))
    /\ decision_scores_' = [shape |-> "n", data |-> ret'.val]
    /\ UNCHANGED <<method, n_neighbors, attrs, X_train_, n_train_, tree_,
                   threshold_, labels_, fitted_with, tie_rule>>

\* a call of decision_function that returns, scored with the rows ind_arr
score_returns(Q, ind_arr) ==
    /\ ret' = Outcome("score", "ok", Q, flip(raw_scores(Q, X_train_, ind_arr)),
                      ind_arr, AllCalls(Q, X_train_, ind_arr))
    /\ UNCHANGED <<method, n_neighbors, fitted_state, fitted_with, tie_rule>>

_decision_function_default(Q) ==
    score_returns(Q, [i \in 1..Len(Q) |-> [r \in 1..n_train_ |-> r]])

\* tree_.query raises when k exceeds the rows of the index; what it does
\* for k < 1 is not defined (it raises or returns empty rows); a row that
\* is not a row of X_train_ raises IndexError in _calculate_wocs
_decision_function_fast(Q) ==
    IF ~check_is_fitted({"tree_"}) THEN score_raises(Q, "NotFittedError")
    ELSE IF n_neighbors > Len(tree_.data) THEN score_raises(Q, "ValueError")
    ELSE IF n_neighbors < 1 THEN
        \E raised \in BOOLEAN :
            IF raised THEN score_raises(Q, "ValueError")
            ELSE score_returns(Q, [i \in 1..Len(Q) |-> <<>>])
    ELSE LET ind_arr == TreeQuery(tree_, Q, n_neighbors)
         IN  IF \E i \in 1..Len(Q) : \E j \in 1..Len(ind_arr[i]) :
                    Len(ind_arr[i]) >= 2 /\ ind_arr[i][j] > Len(X_train_)
             THEN score_raises(Q, "IndexError")
             ELSE score_returns(Q, ind_arr)

decision_function(Q) ==
    IF ~check_is_fitted(FitAttrs) THEN score_raises(Q, "NotFittedError")
    ELSE IF method = "fast" THEN _decision_function_fast(Q)
    ELSE _decision_function_default(Q)

\* self.method = m
set_method(m) ==
    /\ method' = m
    /\ ret' = Outcome("set", "ok", <<>>, <<>>, <<>>, {})
    /\ UNCHANGED <<n_neighbors, fitted_state, fitted_with, tie_rule>>

\* self.n_neighbors = k
set_n_neighbors(k) ==
    /\ n_neighbors' = k
    /\ ret' = Outcome("set", "ok", <<>>, <<>>, <<>>, {})
    /\ UNCHANGED <<method, fitted_state, fitted_with, tie_rule>>

-----------------------------------------------------------------------------
(* The detector driven by any sequence of calls, on the ring data sets.    *)

\* one new point, a row of the largest ring sets only
Probes == {<<Ring[4]>>}

Fit == \E X \in RingSets : fit(X)

Score == \E Q \in Probes \cup ({X_train_} \ {<<>>}) : decision_function(Q)

SetMethod == \E m \in Methods : m # method /\ set_method(m)

SetNNeighbors == \E k \in 0..MaxRing : k # n_neighbors /\ set_n_neighbors(k)

Init == Constructed(0..MaxRing)

Next == Fit \/ Score \/ SetMethod \/ SetNNeighbors

Spec == Init /\ [][Next]_vars

(* One detector, fitted once on any data set and then asked once for the  *)
(* scores of the training set or of every point of the grid.  n_neighbors  *)
(* is read in restricted mode only.                                        *)

FitOnce == ret.op = "init" /\ \E X \in Datasets : fit(X)

ScoreAny == ret.op = "fit" /\ \E Q \in {Grid, X_train_} : decision_function(Q)

InitScoring ==
    /\ Constructed(0..MaxN)
    /\ method # "fast" => (method = "default" /\ n_neighbors = MaxN)

NextScoring == FitOnce \/ ScoreAny

SpecScoring == InitScoring /\ [][NextScoring]_vars

-----------------------------------------------------------------------------
(* Properties of the detector driven by any sequence of calls (Spec).      *)

\* C1: a fit call on an already fitted detector that fails with a parameter
\* error (restricted mode with k = 0 or k >= n_train, or an unknown mode)
\* leaves the stored training set, n_train, the published scores, the
\* spatial index, the threshold and the labels as they were before the call.
C1_FailedFitKeepsState ==
    [][(FitAttrs \subseteq attrs /\ ret'.op = "fit" /\ ret'.status = "ValueError")
          => UNCHANGED fitted_state]_vars

\* C2: as long as no fit call has returned, every decision_function call
\* fails with the not-fitted error and returns no scores, also after fit
\* calls that failed with a parameter error.
C2_NotFittedBeforeFit ==
    (ret.op = "score" /\ fitted_with.method = "none")
        => (ret.status = "NotFittedError" /\ ret.val = <<>>)

C2_Witness ==
    /\ ret.op = "score"
    /\ fitted_with.method = "none"
    /\ "X_train_" \in attrs
    /\ ret.status = "NotFittedError"

\* C6: once a fit has returned, the stored training set, n_train and the
\* score array have the same number of rows, and a spatial index the
\* detector holds was built from the stored training set.
C6_FittedStateConsistent ==
    fitted_with.method # "none"
        => /\ Len(X_train_) = n_train_
           /\ Len(decision_scores_.data) = n_train_
           /\ ("tree_" \in attrs => tree_.data = X_train_)

\* the neighbor rows of the rows of Q under the mode, the k and the index
\* of the last fit that returned
RowsAsFitted(Q) ==
    IF fitted_with.method = "fast"
    THEN TreeQuery(fitted_with.tree, Q, fitted_with.k)
    ELSE [i \in 1..Len(Q) |-> [r \in 1..Len(X_train_) |-> r]]

\* C7: a decision_function call that returns scores has resolved the
\* neighbors with the mode, the k and the spatial index of the last fit that
\* returned, whatever method and n_neighbors were set to since.
C7_ScoreUsesFitTimeConfig ==
    (ret.op = "score" /\ ret.status = "ok") => ret.ind = RowsAsFitted(ret.arg)

\* C10: a decision_function call leaves the stored training set, n_train,
\* the fit-time scores, the threshold, the labels and the spatial index as
\* they were, and two calls in a row that return scores for the same input
\* return the same scores.
C10_ScoreLeavesFittedState ==
    [][(ret'.op = "score")
          => /\ UNCHANGED fitted_state
             /\ (ret.op = "score" /\ ret.status = "ok" /\ ret'.status = "ok"
                     /\ ret'.arg = ret.arg)
                    => ret'.val = ret.val]_vars

C10_Witness ==
    /\ ret.op = "score"
    /\ ret.status = "ok"
    /\ "tree_" \in attrs
    /\ \E i \in 1..Len(ret.val) : ~IsNaN(ret.val[i]) /\ ret.val[i] # Zero

-----------------------------------------------------------------------------
(* Properties of one fit and the scores asked of it (SpecScoring).         *)

\* the detector was fitted in restricted mode with k = n_train - 1
FittedFastFull ==
    /\ fitted_with.method = "fast"
    /\ fitted_with.k = n_train_ - 1

\* C3 as stated: fitted in restricted mode with k = n_train - 1, the
\* detector has the fit-time scores of exhaustive mode on the same training
\* set, and decision_function returns the scores of exhaustive mode.
C3_FastFullEqualsDefault ==
    FittedFastFull
        => /\ decision_scores_.data
                 = flip(raw_scores(X_train_, X_train_, _fit_default_ind(X_train_)))
           /\ (ret.op = "score" /\ ret.status = "ok")
                 => ret.val = flip(raw_scores(ret.arg, X_train_,
                        [i \in 1..Len(ret.arg) |-> [r \in 1..n_train_ |-> r]]))

\* C3 amended: fitted in restricted mode with k = n_train - 1, the detector
\* has the fit-time scores of exhaustive mode on the same training set.
C3_FastFullFitEqualsDefault ==
    FittedFastFull
        => decision_scores_.data
               = flip(raw_scores(X_train_, X_train_, _fit_default_ind(X_train_)))

C3_Witness ==
    /\ FittedFastFull
    /\ ret.op = "fit"
    /\ \E i \in 1..n_train_ :
           /\ ~IsNaN(decision_scores_.data[i])
           /\ decision_scores_.data[i] # Zero

\* C4: fit in restricted mode with k = 1 on two or more points returns
\* without error; every neighbor row has one index and gives no pair, and
\* there is one score per training point, each of them NaN.
C4_FastK1AllNaN ==
    (ret.op = "fit" /\ method = "fast" /\ n_neighbors = 1 /\ Len(ret.arg) >= 2)
        => /\ ret.status = "ok"
           /\ Len(decision_scores_.data) = Len(ret.arg)
           /\ \A i \in 1..Len(ret.arg) :
                 /\ Len(ret.ind[i]) = 1
                 /\ combinations(ret.ind[i]) = <<>>
                 /\ IsNaN(decision_scores_.data[i])

C4_Witness ==
    /\ ret.op = "fit"
    /\ ret.status = "ok"
    /\ method = "fast"
    /\ n_neighbors = 1
    /\ Len(ret.arg) = 3
    /\ \A i \in 1..3 : IsNaN(decision_scores_.data[i])

\* the training set was scored in restricted mode by the fit that built it
ScoredTrainingSetFast ==
    /\ ret.op = "score"
    /\ ret.status = "ok"
    /\ ret.arg = X_train_
    /\ method = "fast"
    /\ fitted_with.method = "fast"
    /\ fitted_with.k = n_neighbors
    /\ n_neighbors >= 1

\* the unordered pairs of neighbors of row i that are not skipped
KeptSet(i, X_ind) ==
    LET kept == KeptPairs(X_train_[i], X_train_, X_ind)
    IN  {{kept[j][1], kept[j][2]} : j \in 1..Len(kept)}

Negated(score, variance) ==
    IF IsNaN(variance) THEN IsNaN(score) ELSE RatAdd(score, variance) = Zero

C8_ScoresAreNegatedVariance ==
    /\ (ret.op = "fit" /\ ret.status = "ok")
         => LET variance == [i \in 1..n_train_ |->
                    _calculate_wocs(X_train_[i], X_train_, ret.ind[i])]
            IN  \A i \in 1..n_train_ :
                   /\ Negated(decision_scores_.data[i], variance[i])
                   /\ \A j \in 1..n_train_ :
                         RatGreater(variance[j], variance[i])
                             => RatGreater(decision_scores_.data[i],
                                           decision_scores_.data[j])
    /\ (ret.op = "score" /\ ret.status = "ok")
         => \A i \in 1..Len(ret.arg) :
               Negated(ret.val[i],
                       _calculate_wocs(ret.arg[i], X_train_, ret.ind[i]))

C8_Witness ==
    /\ ret.op = "score"
    /\ ret.status = "ok"
    /\ method = "default"
    /\ RatGreater(Zero, ret.val[1])
    /\ \E i \in 1..n_train_ : RatGreater(Zero, decision_scores_.data[i])

\* C9: while a point is scored, at fit or at score time and in either mode,
\* every unordered pair of its neighbor indices is enumerated once, and
\* _wcos is called only with two points that both differ from the scored
\* point, so neither displacement has length zero.
C9_NoDegenerateWcosCall ==
    /\ \A c \in ret.calls :
          /\ c[2] # c[1] /\ c[3] # c[1]
          /\ Norm2Sq(VecSub(c[2], c[1])) # 0
          /\ Norm2Sq(VecSub(c[3], c[1])) # 0
    /\ \A i \in 1..Len(ret.ind) :
          LET pairs == combinations(ret.ind[i])
              m     == Len(ret.ind[i])
          IN  /\ 2 * Len(pairs) = m * (m - 1)
              /\ \A a \in 1..Len(pairs), b \in 1..Len(pairs) :
                    a # b => {pairs[a][1], pairs[a][2]} # {pairs[b][1], pairs[b][2]}

\* a scored point that equals one of its neighbors, one pair skipped and
\* another one evaluated
C9_Witness ==
    /\ ret.status = "ok"
    /\ ret.calls # {}
    /\ \E i \in 1..Len(ret.ind) :
          /\ Len(KeptPairs(ret.arg[i], X_train_, ret.ind[i])) > 0
          /\ Len(KeptPairs(ret.arg[i], X_train_, ret.ind[i]))
                 < Len(combinations(ret.ind[i]))

====
